---- MODULE Spec2Model ----
(***************************************************************************)
(* Real-time relay and spatial-alerting pipeline of backend/main.py:       *)
(* the ConnectionManager (dashboard sockets and external relay sockets),   *)
(* the dashboard session handler websocket_endpoint, the relay listener    *)
(* listen_to_external_ws, and the alert checks check_poi_proximity and     *)
(* check_geofence_violations with calculate_distance, and the REST         *)
(* handlers of the device store and of the alert acknowledgement.          *)
(*                                                                         *)
(* Scheduling is asyncio's: one task runs at a time and keeps the          *)
(* processor until it awaits.  The variable running names the task that    *)
(* is between two awaits; a step guarded by CanRun(t) and leaving          *)
(* running' = NoTask ends at an await (receive, connect, send).            *)
(*                                                                         *)
(* Python dicts are insertion ordered.  A dict that the code iterates is   *)
(* modelled as the entry table CPython keeps: a sequence of entries in     *)
(* insertion order in which a deleted key leaves an empty slot; its        *)
(* iterator holds a position, the size the dict had when the iterator was  *)
(* made and the number of items still expected, and raises RuntimeError    *)
(* when the size differs or when an item turns up that was not expected.   *)
(* The table is rebuilt by CPython only after more insertions than the     *)
(* bounds below allow.                                                     *)
(***************************************************************************)
EXTENDS Integers, Sequences, FiniteSets, TLC

\* ------------------------------------------------------------------ bounds
MaxSockets == 2
MaxListeners == 1
MaxMsgs == 2

\* client ids and device ids are both plain strings of one namespace
Ids == {"a", "b"}
\* the configuration with two relays: its dashboard sockets and its relay listeners
RelaySockets == 1
MaxRelays == 2

NoKey == ""
NoTask == <<"none", 0>>
SessionTask(s) == <<"session", s>>
ListenerTask(l) == <<"listener", l>>

VARIABLES
  active_connections,       \* manager.active_connections: entry table client_id -> socket
  external_ws_connections,  \* manager.external_ws_connections: id -> external socket (0: no entry)
  session,                  \* the websocket_endpoint task of each dashboard socket
  listener,                 \* the listen_to_external_ws tasks; external socket l is read by task l
  devices_db,               \* device id -> Device
  offenders_db,             \* entry table offender id -> Offender
  pois_db,                  \* entry table poi id -> POI
  alerts_db,                \* the alerts in creation order; an alert's id is its place
  socket_ok,                \* whether a send on a dashboard socket succeeds
  running,                  \* the task that is between two awaits
  registered,               \* history: id -> the socket last connected under it and not disconnected since
  ev                        \* what the last step did

vars == <<active_connections, external_ws_connections, session, listener,
          devices_db, offenders_db, pois_db, alerts_db,
          socket_ok, running, registered, ev>>

stores == <<devices_db, offenders_db, pois_db, alerts_db>>

\* the dashboard sockets and the external relay sockets of the configuration
Sockets == DOMAIN session
Listeners == DOMAIN listener

\* ------------------------------------------------- dict and its iterator
Tomb == [k |-> NoKey, v |-> 0]

DictUsed(d) == Cardinality({i \in 1..Len(d) : d[i].k # NoKey})
DictHas(d, key) == \E i \in 1..Len(d) : d[i].k = key
DictIndex(d, key) == CHOOSE i \in 1..Len(d) : d[i].k = key
DictGet(d, key) == d[DictIndex(d, key)].v
DictValues(d) == {d[i].v : i \in {j \in 1..Len(d) : d[j].k # NoKey}}
DictKeys(d) == {d[i].k : i \in {j \in 1..Len(d) : d[j].k # NoKey}}

\* d[key] = value: an existing key keeps its slot, a new key is appended
DictSet(d, key, value) ==
  IF DictHas(d, key)
    THEN [d EXCEPT ![DictIndex(d, key)] = [k |-> key, v |-> value]]
    ELSE Append(d, [k |-> key, v |-> value])

\* del d[key]: the slot stays, empty
DictDel(d, key) == [d EXCEPT ![DictIndex(d, key)] = Tomb]

NewIter(d) == [pos |-> 1, used |-> DictUsed(d), len |-> DictUsed(d)]

\* next(iterator): "raise" (RuntimeError), "stop" (exhausted) or "item" at slot i
IterNext(d, it) ==
  IF it.used # DictUsed(d)
    THEN [res |-> "raise", it |-> [it EXCEPT !.used = -1], i |-> 0]
    ELSE LET live == {i \in it.pos..Len(d) : d[i].k # NoKey} IN
         IF live = {}
           THEN [res |-> "stop", it |-> it, i |-> 0]
           ELSE IF it.len = 0
             THEN [res |-> "raise", it |-> it, i |-> 0]
             ELSE LET i == CHOOSE x \in live : \A y \in live : x <= y IN
                  [res |-> "item",
                   it |-> [pos |-> i + 1, used |-> it.used, len |-> it.len - 1],
                   i |-> i]

\* ------------------------------------------------------ calculate_distance
\* Coordinates are whole degrees on the grid lat in {-60, 0, 60}, lon a multiple of
\* 60, where every term of the haversine is an exact rational with denominator 16.

\* 4 * sin(radians(delta) / 2) ** 2
Sin2Half(delta) ==
  LET d == (IF delta < 0 THEN -delta ELSE delta) % 360 IN
  CASE d = 0 -> 0 [] d = 60 -> 1 [] d = 120 -> 3 [] d = 180 -> 4
    [] d = 240 -> 3 [] d = 300 -> 1

\* 2 * cos(radians(lat))
Cos2(lat) == CASE lat = 0 -> 2 [] lat = 60 -> 1 [] lat = -60 -> 1

\* line 549: 16 * a
HaversineA(lat1, lon1, lat2, lon2) ==
  4 * Sin2Half(lat2 - lat1) + Cos2(lat1) * Cos2(lat2) * Sin2Half(lon2 - lon1)

\* lines 542, 550, 552: R * 2 * atan2(sqrt(a), sqrt(1 - a)) with R = 6371000, in whole
\* metres, by 16 * a
ArcMeters(a16) ==
  CASE a16 = 0 -> 0 [] a16 = 1 -> 3219651 [] a16 = 2 -> 4604539 [] a16 = 3 -> 5706280
    [] a16 = 4 -> 6671695 [] a16 = 5 -> 7558551 [] a16 = 6 -> 8397717
    [] a16 = 7 -> 9209079 [] a16 = 8 -> 10007543 [] a16 = 9 -> 10806007
    [] a16 = 10 -> 11617369 [] a16 = 11 -> 12456535 [] a16 = 12 -> 13343391
    [] a16 = 13 -> 14308806 [] a16 = 14 -> 15410546 [] a16 = 15 -> 16795434
    [] a16 = 16 -> 20015086

\* a distance that takes the latitude of the first point for both
calculate_distance_level(lat1, lon1, lat2, lon2) ==
  ArcMeters(HaversineA(lat1, lon1, lat1, lon2))

calculate_distance(lat1, lon1, lat2, lon2) == ArcMeters(HaversineA(lat1, lon1, lat2, lon2))

\* ------------------------------------------------------------- the stores
\* a location that is None
NoLoc == [lat |-> 1000, lon |-> 1000]
\* a payload of line 446 that has no "lon" key carries NoCoord in its place
NoCoord == 999
HasBoth(loc) == loc.lat # NoCoord /\ loc.lon # NoCoord
Locs == {[lat |-> 0, lon |-> 0], [lat |-> 0, lon |-> 60], [lat |-> 0, lon |-> NoCoord]}

\* the distance between the two sample locations
FarMeters == calculate_distance(0, 0, 0, 60)

NoRadius == -1
NoType == ""

PoisSeed ==
  << [k |-> "p1", v |-> [id |-> "p1", lat |-> 0, lon |-> 0, radius |-> FarMeters,
                         is_active |-> TRUE]],
     [k |-> "p2", v |-> [id |-> "p2", lat |-> 0, lon |-> 0, radius |-> FarMeters + 1,
                         is_active |-> FALSE]],
     [k |-> "p3", v |-> [id |-> "p3", lat |-> 0, lon |-> 60, radius |-> 0,
                         is_active |-> TRUE]] >>

ZonesSeed ==
  << [name |-> "z1", lat |-> 0, lon |-> 60, radius |-> FarMeters + 1, type |-> "exclusion"],
     [name |-> "z2", lat |-> 0, lon |-> 0, radius |-> FarMeters + 1, type |-> "inclusion"],
     [name |-> "z3", lat |-> 0, lon |-> 0, radius |-> 0, type |-> "exclusion"] >>

OffendersSeed ==
  << [k |-> "o1", v |-> [id |-> "o1", id_number |-> "n1", device_id |-> "a",
                         current_location |-> NoLoc, geofence_zones |-> ZonesSeed]],
     [k |-> "o2", v |-> [id |-> "o2", id_number |-> "n2", device_id |-> "b",
                         current_location |-> NoLoc, geofence_zones |-> <<>>]] >>

\* lines 73-82: a Device as a request body makes it, assigned to offender_id (NoKey:
\* None)
Device(offender_id) ==
  [status |-> "offline", last_location |-> NoLoc, offender_id |-> offender_id]

DevicesSeed == [d \in {"a"} |-> [Device("o1") EXCEPT !.status = "online"]]

NoOffender == [id |-> NoKey, id_number |-> NoKey, device_id |-> NoKey,
               current_location |-> NoLoc, geofence_zones |-> <<>>]

\* -------------------------------------------------------- the alert checks
\* lines 515-516: zone.get("radius", 100), zone.get("type", "exclusion")
zone_radius(zone) == IF zone.radius = NoRadius THEN 100 ELSE zone.radius
zone_type(zone) == IF zone.type = NoType THEN "exclusion" ELSE zone.type

\* check_poi_proximity with <= for <
poi_alert_inclusive(poi, location) ==
  /\ poi.is_active
  /\ calculate_distance(location.lat, location.lon, poi.lat, poi.lon) <= poi.radius

\* check_poi_proximity, lines 486-494: whether this POI raises an alert
poi_alert(poi, location) ==
  /\ poi.is_active
  /\ calculate_distance(location.lat, location.lon, poi.lat, poi.lon) < poi.radius

\* check_geofence_violations, lines 513-523: whether this zone raises an alert
zone_alert(zone, location) ==
  /\ zone_type(zone) = "exclusion"
  /\ calculate_distance(location.lat, location.lon, zone.lat, zone.lon) < zone_radius(zone)

\* an alert store keyed by what the alert is about instead of by a fresh id
StoreAlert_keyed(db, alert) ==
  IF \E i \in 1..Len(db) : db[i].offender_id = alert.offender_id
                           /\ db[i].alert_type = alert.alert_type
                           /\ db[i].message = alert.message
    THEN LET i == CHOOSE j \in 1..Len(db) : db[j].offender_id = alert.offender_id
                                          /\ db[j].alert_type = alert.alert_type
                                          /\ db[j].message = alert.message
         IN [db EXCEPT ![i] = [alert EXCEPT !.id = i]]
    ELSE Append(db, [alert EXCEPT !.id = Len(db) + 1])

\* lines 496-502 and 524-530: Alert(...) takes a fresh uuid4 as its id, and
\* alerts_db[alert.id] = alert adds it
\* an alert that is not in the store when its broadcast begins
StoreAlert_late(db, alert) == db

StoreAlert(db, alert) == Append(db, [alert EXCEPT !.id = Len(db) + 1])

\* lines 496-501 and 524-529; sample is history: the listener and the number of the
\* message that raised the alert
Alert(offender_id, alert_type, name, sample) ==
  [id |-> 0, offender_id |-> offender_id, alert_type |-> alert_type,
   severity |-> "high", message |-> name, acknowledged |-> FALSE, sample |-> sample]

\* ------------------------------------------------------ ConnectionManager
\* connect, line 162: self.active_connections[client_id] = websocket
connect(ac, client_id, websocket) == DictSet(ac, client_id, websocket)

\* disconnect, lines 165-166
disconnect_active_keep(ac, client_id) == ac
disconnect_active(ac, client_id) ==
  IF DictHas(ac, client_id) THEN DictDel(ac, client_id) ELSE ac

\* disconnect, lines 167-168: the external map is looked up by the CLIENT id
disconnect_external(ext, client_id) ==
  IF ext[client_id] # 0 THEN [ext EXCEPT ![client_id] = 0] ELSE ext

\* The frame of one call of broadcast: its iterator over active_connections.values(),
\* and, as history, the sockets it tried (att), the sockets whose send succeeded
\* (del), the sockets registered when it began (snap), those unregistered while it
\* was suspended (gone) and whether any connect or disconnect ran meanwhile (dirty).
NoIter == [pos |-> 0, used |-> 0, len |-> 0]
NoFrame == [st |-> "idle", it |-> NoIter, att |-> {}, del |-> {}, snap |-> {},
            gone |-> {}, dirty |-> FALSE]

\* broadcast, line 172: the for statement makes the iterator
broadcast_begin(ac) ==
  [st |-> "run", it |-> NewIter(ac), att |-> {}, del |-> {}, snap |-> DictValues(ac),
   gone |-> {}, dirty |-> FALSE]

\* a broadcast whose send failure is not caught
broadcast_turn_uncaught(ac, f, ok) ==
  LET n == IterNext(ac, f.it) IN
  CASE n.res = "raise" -> [f EXCEPT !.st = "raised", !.it = n.it]
    [] n.res = "stop" -> [f EXCEPT !.st = "returned"]
    [] OTHER ->
         LET ws == ac[n.i].v IN
         IF ok[ws]
           THEN [f EXCEPT !.st = "sending", !.it = n.it, !.att = @ \cup {ws},
                          !.del = @ \cup {ws}]
           ELSE [f EXCEPT !.st = "raised", !.it = n.it, !.att = @ \cup {ws}]

\* broadcast, lines 172-176: one turn of the loop: next(iterator), which may raise
\* RuntimeError to the caller or end the loop, then send_json inside try/except: pass
broadcast_turn(ac, f, ok) ==
  LET n == IterNext(ac, f.it) IN
  CASE n.res = "raise" -> [f EXCEPT !.st = "raised", !.it = n.it]
    [] n.res = "stop" -> [f EXCEPT !.st = "returned"]
    [] OTHER ->
         LET ws == ac[n.i].v IN
         [f EXCEPT !.st = "sending", !.it = n.it, !.att = @ \cup {ws},
                   !.del = IF ok[ws] THEN @ \cup {ws} ELSE @]

\* a connect or disconnect that runs while a broadcast is suspended in a send
Disturb(f, before, after) ==
  IF f.st = "sending"
    THEN [f EXCEPT !.dirty = TRUE,
                   !.gone = @ \cup (DictValues(before) \ DictValues(after))]
    ELSE f

DisturbAll(tasks, before, after) ==
  [t \in DOMAIN tasks |-> [tasks[t] EXCEPT !.bc = Disturb(@, before, after)]]

\* ------------------------------------------------------------------ events
\* ev names the last step where a property has to tell it from others: the operation,
\* the task that took it, and the messages the step sent outside a broadcast
NoEv == [op |-> "init", task |-> NoTask, out |-> <<>>]

Ev(op, task) == [op |-> op, task |-> task, out |-> <<>>]

\* a broadcast ended: "returned" or "raised"
EvBroadcast(task, f) == Ev(f.st, task)

\* a step no property has to tell from others
Quiet == Ev("step", NoTask)

Msg(to, type) == [to |-> to, type |-> type]

CanRun(t) == running \in {NoTask, t}

\* ------------------------------------------------------------------- tasks
NoSession == [pc |-> "idle", client_id |-> NoKey, device_id |-> NoKey, bc |-> NoFrame]
\* loc: the sample being processed; oi, pi: the iterators over offenders_db.values()
\* and pois_db.values(); zi: the place in offender.geofence_zones; offender: the
\* Offender of the loop at line 456; made: history, the alerts raised for it
NoListener == [pc |-> "none", device_id |-> NoKey, owner |-> 0, n |-> 0, end |-> "",
               bc |-> NoFrame, loc |-> NoLoc, oi |-> NoIter, pi |-> NoIter, zi |-> 0,
               offender |-> NoOffender, made |-> <<>>]

Init ==
  /\ active_connections = <<>>
  /\ external_ws_connections = [i \in Ids |-> 0]
  /\ session = [s \in 1..MaxSockets |-> NoSession]
  /\ listener = [l \in 1..MaxListeners |-> NoListener]
  /\ devices_db = DevicesSeed
  /\ offenders_db = OffendersSeed
  /\ pois_db = PoisSeed
  /\ alerts_db = <<>>
  /\ socket_ok = [s \in 1..MaxSockets |-> TRUE]
  /\ running = NoTask
  /\ registered = [i \in Ids |-> 0]
  /\ ev = NoEv

\* -------------------------------------------------- websocket_endpoint
\* line 399: await manager.connect(client_id, websocket), then the loop awaits receive_json
Connect(s, c) ==
  /\ running = NoTask
  /\ session[s].pc = "idle"
  /\ \A k \in Sockets : k < s => session[k].pc # "idle"
  /\ LET ac == connect(active_connections, c, s) IN
     /\ active_connections' = ac
     /\ session' = [DisturbAll(session, active_connections, ac) EXCEPT
                      ![s] = [NoSession EXCEPT !.pc = "recv", !.client_id = c]]
     /\ listener' = DisturbAll(listener, active_connections, ac)
  /\ registered' = [registered EXCEPT ![c] = s]
  /\ ev' = Quiet
  /\ UNCHANGED <<external_ws_connections, socket_ok, running, stores>>

\* lines 432-437: both handlers call manager.disconnect(client_id); the task ends and
\* the server closes the socket.  ext and lis are the external map and the listeners
\* as the step has left them before the handler runs.
CloseSessionWith(s, ext, lis) ==
  LET c == session[s].client_id
      ac == disconnect_active(active_connections, c) IN
  /\ active_connections' = ac
  /\ external_ws_connections' = disconnect_external(ext, c)
  /\ session' = [DisturbAll(session, active_connections, ac) EXCEPT
                   ![s] = [NoSession EXCEPT !.pc = "closed"]]
  /\ listener' = DisturbAll(lis, active_connections, ac)
  /\ registered' = [registered EXCEPT ![c] = 0]
  /\ socket_ok' = [socket_ok EXCEPT ![s] = FALSE]
  /\ running' = NoTask

CloseSession(s) == CloseSessionWith(s, external_ws_connections, listener)

\* line 404 raises WebSocketDisconnect: the client closed or the transport failed
RecvDisconnect(s) ==
  /\ running = NoTask
  /\ session[s].pc = "recv"
  /\ ~socket_ok[s]
  /\ CloseSession(s)
  /\ UNCHANGED stores
  /\ ev' = Ev("disconnect", SessionTask(s))

\* line 404 raises JSONDecodeError: the frame is not JSON; caught at line 435
RecvMalformed(s) ==
  /\ running = NoTask
  /\ session[s].pc = "recv"
  /\ socket_ok[s]
  /\ CloseSession(s)
  /\ UNCHANGED stores
  /\ ev' = Ev("malformed", SessionTask(s))

\* lines 406-429: a message of another type, or without one, is ignored
RecvIgnored(s) ==
  /\ running = NoTask
  /\ session[s].pc = "recv"
  /\ socket_ok[s]
  /\ ev' = Quiet
  /\ UNCHANGED <<active_connections, external_ws_connections, session, listener,
                 socket_ok, running, registered, stores>>

\* lines 406-413: register_device; the task awaits websockets.connect(url)
RecvRegisterDevice(s, d) ==
  /\ running = NoTask
  /\ session[s].pc = "recv"
  /\ socket_ok[s]
  /\ session' = [session EXCEPT ![s] = [@ EXCEPT !.pc = "ext_connect", !.device_id = d]]
  /\ ev' = Quiet
  /\ UNCHANGED <<active_connections, external_ws_connections, listener, socket_ok,
                 running, registered, stores>>

\* the handler of lines 423-427 sending its error message twice
relay_connect_failed_twice(s, ok) ==
  IF ok[s] THEN <<Msg(s, "error"), Msg(s, "error")>> ELSE <<>>

\* lines 423-427: what the handler sends when websockets.connect raised
relay_connect_failed(s, ok) == IF ok[s] THEN <<Msg(s, "error")>> ELSE <<>>

\* line 413 raises: the relay cannot be reached.  The error send itself raises on a
\* dead socket, which the handlers of lines 432-437 take as the end of the session.
ExtConnectFail(s) ==
  /\ running = NoTask
  /\ session[s].pc = "ext_connect"
  /\ ev' = [Ev("connect_failed", SessionTask(s)) EXCEPT
              !.out = relay_connect_failed(s, socket_ok)]
  /\ IF socket_ok[s]
       THEN /\ session' = [session EXCEPT ![s] = [@ EXCEPT !.pc = "recv", !.device_id = NoKey]]
            /\ UNCHANGED <<active_connections, external_ws_connections, listener,
                           socket_ok, running, registered>>
       ELSE CloseSession(s)
  /\ UNCHANGED stores

\* lines 413-422: the relay is connected, registered under the device id, its listener
\* task is created and the success message sent.  On a dead socket that send raises
\* inside the try of line 411, so does the error send of line 424, and the session ends.
ExtConnectOk(s) ==
  /\ running = NoTask
  /\ session[s].pc = "ext_connect"
  /\ \E l \in Listeners :
       /\ listener[l].pc = "none"
       /\ \A k \in Listeners : k < l => listener[k].pc # "none"
       /\ LET d == session[s].device_id
              ext == [external_ws_connections EXCEPT ![d] = l]
              lis == [listener EXCEPT ![l] = [NoListener EXCEPT !.pc = "recv",
                                              !.device_id = d, !.owner = s]]
          IN IF socket_ok[s]
               THEN /\ external_ws_connections' = ext
                    /\ listener' = lis
                    /\ session' = [session EXCEPT ![s] = [@ EXCEPT !.pc = "recv",
                                                          !.device_id = NoKey]]
                    /\ UNCHANGED <<active_connections, socket_ok, running, registered>>
               ELSE CloseSessionWith(s, ext, lis)
  /\ ev' = Quiet
  /\ UNCHANGED stores

\* lines 429-430: location_update is passed to manager.broadcast
RecvLocationUpdate(s) ==
  /\ running = NoTask
  /\ session[s].pc = "recv"
  /\ socket_ok[s]
  /\ session' = [session EXCEPT ![s] = [@ EXCEPT !.pc = "broadcast",
                                        !.bc = broadcast_begin(active_connections)]]
  /\ running' = SessionTask(s)
  /\ ev' = Quiet
  /\ UNCHANGED <<active_connections, external_ws_connections, listener, socket_ok,
                 registered, stores>>

\* line 430: the broadcast of the session runs one turn; a RuntimeError out of it is
\* caught at line 435
SessionBroadcastTurn(s) ==
  /\ CanRun(SessionTask(s))
  /\ session[s].pc = "broadcast"
  /\ LET f == broadcast_turn(active_connections, session[s].bc, socket_ok) IN
     CASE f.st = "sending" ->
            /\ session' = [session EXCEPT ![s] = [@ EXCEPT !.bc = f]]
            /\ running' = NoTask
            /\ ev' = Quiet
            /\ UNCHANGED <<active_connections, external_ws_connections, listener,
                           socket_ok, registered>>
       [] f.st = "returned" ->
            /\ session' = [session EXCEPT ![s] = [@ EXCEPT !.pc = "recv", !.bc = NoFrame]]
            /\ running' = NoTask
            /\ ev' = EvBroadcast(SessionTask(s), f)
            /\ UNCHANGED <<active_connections, external_ws_connections, listener,
                           socket_ok, registered>>
       [] OTHER ->
            /\ CloseSession(s)
            /\ ev' = EvBroadcast(SessionTask(s), f)
  /\ UNCHANGED stores

\* the peer of a dashboard socket goes away: sends on it fail from now on
SocketBreak(s) ==
  /\ running = NoTask
  /\ session[s].pc \notin {"idle", "closed"}
  /\ socket_ok[s]
  /\ socket_ok' = [socket_ok EXCEPT ![s] = FALSE]
  /\ ev' = Quiet
  /\ UNCHANGED <<active_connections, external_ws_connections, session, listener,
                 running, registered, stores>>

\* send_to_client, lines 178-181 (no caller in the source): the send raises to the
\* caller on a dead socket; the registry is left alone
send_to_client(c) ==
  /\ running = NoTask
  /\ ev' = Quiet
  /\ UNCHANGED <<active_connections, external_ws_connections, session, listener,
                 socket_ok, running, registered, stores>>

\* ------------------------------------------------- listen_to_external_ws
sessions_and_registry == <<active_connections, external_ws_connections, session,
                           socket_ok, registered>>

\* the task ends: pc "done"; end tells how
ListenerEnd(l, how) ==
  [NoListener EXCEPT !.pc = "done", !.end = how, !.device_id = listener[l].device_id,
                     !.owner = listener[l].owner]

\* lines 442-454: a "location" message with a location payload; the device record,
\* when there is one, is updated and the loop over offenders_db.values() begins
RelayLocation_overlapping(l, q) ==
  /\ running = NoTask
  /\ listener[l].pc \notin {"none", "done"}
  /\ listener[l].n < MaxMsgs
  /\ LET d == listener[l].device_id IN
     devices_db' = IF d \in DOMAIN devices_db
                     THEN [devices_db EXCEPT ![d] = [@ EXCEPT !.last_location = q,
                                                     !.status = "online"]]
                     ELSE devices_db
  /\ listener' = [listener EXCEPT ![l] = [@ EXCEPT !.pc = "offenders", !.loc = q,
                                          !.n = @ + 1, !.oi = NewIter(offenders_db),
                                          !.offender = NoOffender, !.made = <<>>,
                                          !.bc = NoFrame]]
  /\ running' = ListenerTask(l)
  /\ ev' = Quiet
  /\ UNCHANGED <<sessions_and_registry, offenders_db, pois_db, alerts_db>>

RelayLocation(l, q) ==
  /\ running = NoTask
  /\ listener[l].pc = "recv"
  /\ listener[l].n < MaxMsgs
  /\ LET d == listener[l].device_id IN
     devices_db' = IF d \in DOMAIN devices_db
                     THEN [devices_db EXCEPT ![d] = [@ EXCEPT !.last_location = q,
                                                     !.status = "online"]]
                     ELSE devices_db
  /\ listener' = [listener EXCEPT ![l] = [@ EXCEPT !.pc = "offenders", !.loc = q,
                                          !.n = @ + 1, !.oi = NewIter(offenders_db),
                                          !.offender = NoOffender, !.made = <<>>]]
  /\ running' = ListenerTask(l)
  /\ ev' = Quiet
  /\ UNCHANGED <<sessions_and_registry, offenders_db, pois_db, alerts_db>>

\* lines 445, 449: a message of another type, or a location message without a payload
RelayIgnored(l) ==
  /\ running = NoTask
  /\ listener[l].pc = "recv"
  /\ listener[l].n < MaxMsgs
  /\ listener' = [listener EXCEPT ![l] = [@ EXCEPT !.n = @ + 1]]
  /\ ev' = Quiet
  /\ UNCHANGED <<sessions_and_registry, running, stores>>

\* line 443: json.loads raises; the handler of line 480 catches it outside the loop
RelayMalformed(l) ==
  /\ running = NoTask
  /\ listener[l].pc = "recv"
  /\ listener[l].n < MaxMsgs
  /\ listener' = [listener EXCEPT ![l] = ListenerEnd(l, "error")]
  /\ ev' = Ev("malformed", ListenerTask(l))
  /\ UNCHANGED <<sessions_and_registry, running, stores>>

\* line 442: the relay closes the stream with a normal close code; the async iterator
\* of the websockets library ends, the loop is left without an exception
RelayClosedOK(l) ==
  /\ running = NoTask
  /\ listener[l].pc = "recv"
  /\ listener' = [listener EXCEPT ![l] = ListenerEnd(l, "closed_ok")]
  /\ ev' = Ev("stream_closed", ListenerTask(l))
  /\ UNCHANGED <<sessions_and_registry, running, stores>>

\* lines 475-479: the stream ends with an error: ConnectionClosed is raised
RelayClosedError(l) ==
  /\ running = NoTask
  /\ listener[l].pc = "recv"
  /\ LET d == listener[l].device_id IN
     devices_db' = IF d \in DOMAIN devices_db
                     THEN [devices_db EXCEPT ![d] = [@ EXCEPT !.status = "offline"]]
                     ELSE devices_db
  /\ listener' = [listener EXCEPT ![l] = ListenerEnd(l, "closed_error")]
  /\ ev' = Ev("stream_closed", ListenerTask(l))
  /\ UNCHANGED <<sessions_and_registry, running, offenders_db, pois_db, alerts_db>>

ListenerOffenderNext_any(l) ==
  /\ CanRun(ListenerTask(l))
  /\ listener[l].pc = "offenders"
  /\ LET me == listener[l]
         n == IterNext(offenders_db, me.oi) IN
     CASE n.res = "raise" ->
            /\ listener' = [listener EXCEPT ![l] = ListenerEnd(l, "error")]
            /\ running' = NoTask
            /\ UNCHANGED offenders_db
       [] n.res = "stop" ->
            /\ listener' = [listener EXCEPT ![l] = [@ EXCEPT !.pc = "loc_bc",
                              !.bc = broadcast_begin(active_connections)]]
            /\ running' = ListenerTask(l)
            /\ UNCHANGED offenders_db
       [] OTHER ->
            LET o == offenders_db[n.i].v IN
            IF o.device_id \in Ids
              THEN /\ offenders_db' = [offenders_db EXCEPT
                                         ![n.i].v.current_location = me.loc]
                   /\ listener' = [listener EXCEPT ![l] = [@ EXCEPT !.pc = "pois",
                                     !.oi = n.it, !.pi = NewIter(pois_db),
                                     !.offender = [o EXCEPT !.current_location = me.loc],
                                     !.made = <<>>]]
                   /\ running' = ListenerTask(l)
              ELSE /\ listener' = [listener EXCEPT ![l] = [@ EXCEPT !.oi = n.it]]
                   /\ running' = ListenerTask(l)
                   /\ UNCHANGED offenders_db
  /\ ev' = Quiet
  /\ UNCHANGED <<sessions_and_registry, devices_db, pois_db, alerts_db>>

\* lines 456-465: the next offender of the loop; a matching one gets the location and
\* check_poi_proximity begins.  Line 467 after the loop: the location_update broadcast.
ListenerOffenderNext(l) ==
  /\ CanRun(ListenerTask(l))
  /\ listener[l].pc = "offenders"
  /\ LET me == listener[l]
         n == IterNext(offenders_db, me.oi) IN
     CASE n.res = "raise" ->
            /\ listener' = [listener EXCEPT ![l] = ListenerEnd(l, "error")]
            /\ running' = NoTask
            /\ UNCHANGED offenders_db
       [] n.res = "stop" ->
            /\ listener' = [listener EXCEPT ![l] = [@ EXCEPT !.pc = "loc_bc",
                              !.bc = broadcast_begin(active_connections)]]
            /\ running' = ListenerTask(l)
            /\ UNCHANGED offenders_db
       [] OTHER ->
            LET o == offenders_db[n.i].v IN
            IF o.device_id = me.device_id
              THEN /\ offenders_db' = [offenders_db EXCEPT
                                         ![n.i].v.current_location = me.loc]
                   /\ listener' = [listener EXCEPT ![l] = [@ EXCEPT !.pc = "pois",
                                     !.oi = n.it, !.pi = NewIter(pois_db),
                                     !.offender = [o EXCEPT !.current_location = me.loc],
                                     !.made = <<>>]]
                   /\ running' = ListenerTask(l)
              ELSE /\ listener' = [listener EXCEPT ![l] = [@ EXCEPT !.oi = n.it]]
                   /\ running' = ListenerTask(l)
                   /\ UNCHANGED offenders_db
  /\ ev' = Quiet
  /\ UNCHANGED <<sessions_and_registry, devices_db, pois_db, alerts_db>>

\* check_poi_proximity, lines 485-508: the next POI; one that raises an alert has it
\* stored and its broadcast begun
ListenerPoiNext(l) ==
  /\ CanRun(ListenerTask(l))
  /\ listener[l].pc = "pois"
  /\ LET me == listener[l]
         n == IterNext(pois_db, me.pi) IN
     CASE n.res = "raise" ->
            /\ listener' = [listener EXCEPT ![l] = ListenerEnd(l, "error")]
            /\ running' = NoTask
            /\ ev' = Quiet
            /\ UNCHANGED alerts_db
       [] n.res = "stop" ->
            /\ listener' = [listener EXCEPT ![l] = [@ EXCEPT !.pc = "zones", !.zi = 1]]
            /\ running' = ListenerTask(l)
            /\ ev' = Quiet
            /\ UNCHANGED alerts_db
       [] n.res = "item" /\ pois_db[n.i].v.is_active /\ ~HasBoth(me.loc) ->
            \* lines 489-490: location["lon"] raises KeyError, taken at line 480
            /\ listener' = [listener EXCEPT ![l] = ListenerEnd(l, "error")]
            /\ running' = NoTask
            /\ ev' = Ev("key_error", ListenerTask(l))
            /\ UNCHANGED alerts_db
       [] OTHER ->
            LET poi == pois_db[n.i].v IN
            /\ ev' = Quiet
            /\ running' = ListenerTask(l)
            /\ IF poi_alert(poi, me.loc)
                 THEN /\ alerts_db' = StoreAlert(alerts_db,
                                        Alert(me.offender.id, "poi_proximity", poi.id,
                                              <<l, me.n>>))
                      /\ listener' = [listener EXCEPT ![l] = [@ EXCEPT !.pc = "poi_bc",
                                        !.pi = n.it,
                                        !.made = Append(@, <<"poi_proximity", poi.id>>),
                                        !.bc = broadcast_begin(active_connections)]]
                 ELSE /\ listener' = [listener EXCEPT ![l] = [@ EXCEPT !.pi = n.it]]
                      /\ UNCHANGED alerts_db
  /\ UNCHANGED <<sessions_and_registry, devices_db, offenders_db, pois_db>>

\* check_geofence_violations, lines 512-536: the next zone of the offender; after the
\* last one the loop over the offenders goes on
ListenerZoneNext(l) ==
  /\ CanRun(ListenerTask(l))
  /\ listener[l].pc = "zones"
  /\ LET me == listener[l]
         zones == me.offender.geofence_zones IN
     CASE me.zi > Len(zones) ->
            /\ listener' = [listener EXCEPT ![l] = [@ EXCEPT !.pc = "offenders"]]
            /\ running' = ListenerTask(l)
            /\ ev' = Quiet
            /\ UNCHANGED alerts_db
       [] me.zi <= Len(zones) /\ ~HasBoth(me.loc) ->
            \* lines 518-519: location["lon"] raises KeyError, taken at line 480
            /\ listener' = [listener EXCEPT ![l] = ListenerEnd(l, "error")]
            /\ running' = NoTask
            /\ ev' = Ev("key_error", ListenerTask(l))
            /\ UNCHANGED alerts_db
       [] OTHER ->
            LET zone == zones[me.zi] IN
            /\ ev' = Quiet
            /\ running' = ListenerTask(l)
            /\ IF zone_alert(zone, me.loc)
                 THEN /\ alerts_db' = StoreAlert(alerts_db,
                                        Alert(me.offender.id, "geofence_violation",
                                              zone.name, <<l, me.n>>))
                      /\ listener' = [listener EXCEPT ![l] = [@ EXCEPT !.pc = "zone_bc",
                                        !.zi = @ + 1,
                                        !.made = Append(@, <<"geofence_violation", zone.name>>),
                                        !.bc = broadcast_begin(active_connections)]]
                 ELSE /\ listener' = [listener EXCEPT ![l] = [@ EXCEPT !.zi = @ + 1]]
                      /\ UNCHANGED alerts_db
  /\ UNCHANGED <<sessions_and_registry, devices_db, offenders_db, pois_db>>

\* lines 505, 533, 467: the broadcast of the listener runs one turn; a RuntimeError out
\* of it leaves the loop through the handler of line 480
ListenerBroadcastTurn(l) ==
  /\ CanRun(ListenerTask(l))
  /\ listener[l].pc \in {"poi_bc", "zone_bc", "loc_bc"}
  /\ LET me == listener[l]
         f == broadcast_turn(active_connections, me.bc, socket_ok) IN
     CASE f.st = "sending" ->
            /\ listener' = [listener EXCEPT ![l] = [@ EXCEPT !.bc = f]]
            /\ running' = NoTask
            /\ ev' = Quiet
       [] f.st = "returned" ->
            /\ listener' = [listener EXCEPT ![l] = [@ EXCEPT
                              !.pc = CASE me.pc = "poi_bc" -> "pois"
                                       [] me.pc = "zone_bc" -> "zones"
                                       [] OTHER -> "recv",
                              !.bc = NoFrame,
                              !.loc = IF me.pc = "loc_bc" THEN NoLoc ELSE @,
                              !.oi = IF me.pc = "loc_bc" THEN NoIter ELSE @,
                              !.pi = IF me.pc = "loc_bc" THEN NoIter ELSE @,
                              !.zi = IF me.pc = "loc_bc" THEN 0 ELSE @,
                              !.offender = IF me.pc = "loc_bc" THEN NoOffender ELSE @,
                              !.made = IF me.pc = "loc_bc" THEN <<>> ELSE @]]
            /\ running' = IF me.pc = "loc_bc" THEN NoTask ELSE ListenerTask(l)
            /\ ev' = EvBroadcast(ListenerTask(l), f)
       [] OTHER ->
            /\ listener' = [listener EXCEPT ![l] = ListenerEnd(l, "error")]
            /\ running' = NoTask
            /\ ev' = EvBroadcast(ListenerTask(l), f)
  /\ UNCHANGED <<sessions_and_registry, stores>>

\* ------------------------------------------------------------ the system
Next ==
  \/ \E s \in Sockets, c \in Ids : Connect(s, c)
  \/ \E s \in Sockets : RecvDisconnect(s)
  \/ \E s \in Sockets : RecvMalformed(s)
  \/ \E s \in Sockets : RecvIgnored(s)
  \/ \E s \in Sockets, d \in Ids : RecvRegisterDevice(s, d)
  \/ \E s \in Sockets : ExtConnectFail(s)
  \/ \E s \in Sockets : ExtConnectOk(s)
  \/ \E s \in Sockets : RecvLocationUpdate(s)
  \/ \E s \in Sockets : SessionBroadcastTurn(s)
  \/ \E s \in Sockets : SocketBreak(s)
  \/ \E c \in Ids : send_to_client(c)
  \/ \E l \in Listeners, q \in Locs : RelayLocation(l, q)
  \/ \E l \in Listeners : RelayIgnored(l)
  \/ \E l \in Listeners : RelayMalformed(l)
  \/ \E l \in Listeners : RelayClosedOK(l)
  \/ \E l \in Listeners : RelayClosedError(l)
  \/ \E l \in Listeners : ListenerOffenderNext(l)
  \/ \E l \in Listeners : ListenerPoiNext(l)
  \/ \E l \in Listeners : ListenerZoneNext(l)
  \/ \E l \in Listeners : ListenerBroadcastTurn(l)

Spec == Init /\ [][Next]_vars

\* one dashboard and two relays, both devices on record, each assigned to its own
\* offender, and one active POI
RelayOffenders ==
  [i \in 1..Len(OffendersSeed) |-> [OffendersSeed[i] EXCEPT !.v.geofence_zones = <<>>]]

\* ------------------------------------------------------- REST handlers
\* The handlers have no await: each runs whole between two steps of the tasks.  ev
\* holds the request and the status code of the response.
Response(op, args, code) == [Ev(op, NoTask) EXCEPT !.out = Append(args, code)]

OffenderIds == {"o1", "o2"}

\* the index of offender id o in offenders_db, 0 when it has none
OffenderIndex(o) ==
  IF DictHas(offenders_db, o) THEN DictIndex(offenders_db, o) ELSE 0

\* lines 201-202 and 237-239: another device (all but skip) holds the offender
AssignedElsewhere(o, skip) ==
  \E e \in DOMAIN devices_db \ skip : devices_db[e].offender_id = o

\* lines 209-210 and 246-247: offenders_db[device.offender_id].device_id = device.id
AssignDevice(o, id) ==
  IF o # NoKey /\ OffenderIndex(o) # 0
    THEN [offenders_db EXCEPT ![OffenderIndex(o)].v.device_id = id]
    ELSE offenders_db

\* a function with key d set to value v, d in its domain or not
Put(f, d, v) == [k \in DOMAIN f \cup {d} |-> IF k = d THEN v ELSE f[k]]

\* lines 193-215: POST /api/devices/register with a body of id d assigned to o
register_device_unchecked(d, o) ==
  /\ running = NoTask
  /\ IF d \in DOMAIN devices_db
       THEN /\ ev' = Response("register_device", <<d, o>>, 400)
            /\ UNCHANGED <<devices_db, offenders_db>>
       ELSE /\ offenders_db' = AssignDevice(o, d)
            /\ devices_db' = Put(devices_db, d, Device(o))
            /\ ev' = Response("register_device", <<d, o>>, 201)
  /\ UNCHANGED <<sessions_and_registry, listener, running, pois_db, alerts_db>>

register_device(d, o) ==
  /\ running = NoTask
  /\ IF d \in DOMAIN devices_db \/ (o # NoKey /\ AssignedElsewhere(o, {}))
       THEN /\ ev' = Response("register_device", <<d, o>>, 400)
            /\ UNCHANGED <<devices_db, offenders_db>>
       ELSE /\ offenders_db' = AssignDevice(o, d)
            /\ devices_db' = Put(devices_db, d, Device(o))
            /\ ev' = Response("register_device", <<d, o>>, 201)
  /\ UNCHANGED <<sessions_and_registry, listener, running, pois_db, alerts_db>>

\* lines 229-252: PUT /api/devices/{d} with a body of id body_id assigned to o; the
\* body replaces the record under d
update_device(d, body_id, o) ==
  /\ running = NoTask
  /\ CASE d \notin DOMAIN devices_db ->
            /\ ev' = Response("update_device", <<d, o>>, 404)
            /\ UNCHANGED <<devices_db, offenders_db>>
       [] d \in DOMAIN devices_db /\ o # NoKey /\ AssignedElsewhere(o, {d}) ->
            /\ ev' = Response("update_device", <<d, o>>, 400)
            /\ UNCHANGED <<devices_db, offenders_db>>
       [] OTHER ->
            /\ offenders_db' = AssignDevice(o, body_id)
            /\ devices_db' = Put(devices_db, d, Device(o))
            /\ ev' = Response("update_device", <<d, o>>, 200)
  /\ UNCHANGED <<sessions_and_registry, listener, running, pois_db, alerts_db>>

\* lines 254-262: DELETE /api/devices/{d}
delete_device(d) ==
  /\ running = NoTask
  /\ IF d \notin DOMAIN devices_db
       THEN /\ ev' = Response("delete_device", <<d>>, 404)
            /\ UNCHANGED devices_db
       ELSE /\ devices_db' = [k \in DOMAIN devices_db \ {d} |-> devices_db[k]]
            /\ ev' = Response("delete_device", <<d>>, 200)
  /\ UNCHANGED <<sessions_and_registry, listener, running, offenders_db, pois_db, alerts_db>>

\* lines 358-366: POST /api/alerts/{alert_id}/acknowledge
acknowledge_alert_toggle(alert_id) ==
  /\ running = NoTask
  /\ IF alert_id \notin 1..Len(alerts_db)
       THEN /\ ev' = Response("acknowledge_alert", <<alert_id>>, 404)
            /\ UNCHANGED alerts_db
       ELSE /\ alerts_db' = [alerts_db EXCEPT ![alert_id].acknowledged = ~@]
            /\ ev' = Response("acknowledge_alert", <<alert_id>>, 200)
  /\ UNCHANGED <<sessions_and_registry, listener, running, devices_db, offenders_db, pois_db>>

acknowledge_alert(alert_id) ==
  /\ running = NoTask
  /\ IF alert_id \notin 1..Len(alerts_db)
       THEN /\ ev' = Response("acknowledge_alert", <<alert_id>>, 404)
            /\ UNCHANGED alerts_db
       ELSE /\ alerts_db' = [alerts_db EXCEPT ![alert_id].acknowledged = TRUE]
            /\ ev' = Response("acknowledge_alert", <<alert_id>>, 200)
  /\ UNCHANGED <<sessions_and_registry, listener, running, devices_db, offenders_db, pois_db>>

\* a dashboard is connected as client "a" and has registered device "a", whose
\* listener is at its receive loop; the stores as in InitRelays, device "a" on record
InitRest ==
  /\ active_connections = connect(<<>>, "a", 1)
  /\ external_ws_connections = [i \in Ids |-> IF i = "a" THEN 1 ELSE 0]
  /\ session = [s \in 1..1 |-> [NoSession EXCEPT !.pc = "recv", !.client_id = "a"]]
  /\ listener = [l \in 1..1 |-> [NoListener EXCEPT !.pc = "recv", !.device_id = "a",
                                                    !.owner = 1]]
  /\ devices_db = DevicesSeed
  /\ offenders_db = RelayOffenders
  /\ pois_db = SubSeq(PoisSeed, 1, 1)
  /\ alerts_db = <<>>
  /\ socket_ok = [s \in 1..1 |-> TRUE]
  /\ running = NoTask
  /\ registered = [i \in Ids |-> IF i = "a" THEN 1 ELSE 0]
  /\ ev = NoEv

\* the REST handlers beside a listener that takes samples inside the POI
NextRest ==
  \/ \E d \in Ids, o \in OffenderIds \cup {NoKey} : register_device(d, o)
  \/ \E d \in Ids, b \in Ids, o \in OffenderIds \cup {NoKey} : update_device(d, b, o)
  \/ \E d \in Ids : delete_device(d)
  \/ \E i \in 1..(Len(alerts_db) + 1) : acknowledge_alert(i)
  \/ \E l \in Listeners : RelayLocation(l, [lat |-> 0, lon |-> 0])
  \/ \E l \in Listeners : RelayClosedError(l)
  \/ \E l \in Listeners : ListenerOffenderNext(l)
  \/ \E l \in Listeners : ListenerPoiNext(l)
  \/ \E l \in Listeners : ListenerZoneNext(l)
  \/ \E l \in Listeners : ListenerBroadcastTurn(l)

SpecRest == InitRest /\ [][NextRest]_vars

\* ------------------------------------------- REST handlers of the stores
\* the entries a store holds at most, its deleted ones counted
MaxSlots == 3

\* lines 84-100: an Offender as a request body makes it
Offender(id, id_number, device_id) ==
  [NoOffender EXCEPT !.id = id, !.id_number = id_number, !.device_id = device_id]

\* the bodies of the requests: a new offender, one under the id of o2, and each with
\* a fresh ID number or with the one o1 has
OffenderBodies == {Offender(id, n, NoKey) : id \in {"o2", "o3"}, n \in {"n1", "n3"}}

\* the bodies of the requests: POI p1 again, and p3, which the store does not hold
PoiBodies == {PoisSeed[1].v, PoisSeed[3].v}

\* lines 266-276: POST /api/offenders
create_offender(offender) ==
  /\ running = NoTask
  /\ DictHas(offenders_db, offender.id) \/ Len(offenders_db) < MaxSlots
  /\ IF \E existing_offender \in DictValues(offenders_db) :
          existing_offender.id_number = offender.id_number
       THEN /\ ev' = Response("create_offender", <<offender.id>>, 400)
            /\ UNCHANGED offenders_db
       ELSE /\ offenders_db' = DictSet(offenders_db, offender.id, offender)
            /\ ev' = Response("create_offender", <<offender.id>>, 201)
  /\ UNCHANGED <<sessions_and_registry, listener, running, devices_db, pois_db, alerts_db>>

\* lines 300-308: DELETE /api/offenders/{offender_id}
delete_offender(offender_id) ==
  /\ running = NoTask
  /\ IF ~DictHas(offenders_db, offender_id)
       THEN /\ ev' = Response("delete_offender", <<offender_id>>, 404)
            /\ UNCHANGED offenders_db
       ELSE /\ offenders_db' = DictDel(offenders_db, offender_id)
            /\ ev' = Response("delete_offender", <<offender_id>>, 200)
  /\ UNCHANGED <<sessions_and_registry, listener, running, devices_db, pois_db, alerts_db>>

\* lines 312-317: POST /api/pois
create_poi(poi) ==
  /\ running = NoTask
  /\ DictHas(pois_db, poi.id) \/ Len(pois_db) < MaxSlots
  /\ pois_db' = DictSet(pois_db, poi.id, poi)
  /\ ev' = Response("create_poi", <<poi.id>>, 201)
  /\ UNCHANGED <<sessions_and_registry, listener, running, devices_db, offenders_db,
                 alerts_db>>

\* lines 341-349: DELETE /api/pois/{poi_id}
delete_poi(poi_id) ==
  /\ running = NoTask
  /\ IF ~DictHas(pois_db, poi_id)
       THEN /\ ev' = Response("delete_poi", <<poi_id>>, 404)
            /\ UNCHANGED pois_db
       ELSE /\ pois_db' = DictDel(pois_db, poi_id)
            /\ ev' = Response("delete_poi", <<poi_id>>, 200)
  /\ UNCHANGED <<sessions_and_registry, listener, running, devices_db, offenders_db,
                 alerts_db>>

\* the handlers of the offender and POI stores beside a listener that takes samples
\* inside POI p1, from the state of InitRest
NextStores ==
  \/ \E offender \in OffenderBodies : create_offender(offender)
  \/ \E o \in OffenderIds \cup {"o3"} : delete_offender(o)
  \/ \E poi \in PoiBodies : create_poi(poi)
  \/ \E p \in {"p1", "p3"} : delete_poi(p)
  \/ \E l \in Listeners : RelayLocation(l, [lat |-> 0, lon |-> 0])
  \/ \E l \in Listeners : ListenerOffenderNext(l)
  \/ \E l \in Listeners : ListenerPoiNext(l)
  \/ \E l \in Listeners : ListenerZoneNext(l)
  \/ \E l \in Listeners : ListenerBroadcastTurn(l)

SpecStores == InitRest /\ [][NextStores]_vars

\* calculate_distance called on two points of the grid; ev holds the call: the points
\* and the result
GridLats == {-60, 0, 60}
GridLons == {-180, -120, -60, 0, 60, 120, 180}
Grid == [lat : GridLats, lon : GridLons]

Distance(p, q) ==
  /\ ev' = [Ev("distance", NoTask) EXCEPT
              !.out = <<p, q, calculate_distance(p.lat, p.lon, q.lat, q.lon)>>]
  /\ UNCHANGED <<sessions_and_registry, listener, running, stores>>

NextDistance == \E p \in Grid, q \in Grid : Distance(p, q)

SpecDistance == Init /\ [][NextDistance]_vars

InitRelays ==
  /\ active_connections = <<>>
  /\ external_ws_connections = [i \in Ids |-> 0]
  /\ session = [s \in 1..RelaySockets |-> NoSession]
  /\ listener = [l \in 1..MaxRelays |-> NoListener]
  /\ devices_db = [d \in Ids |-> [Device(IF d = "a" THEN "o1" ELSE "o2") EXCEPT
                                     !.status = "online"]]
  /\ offenders_db = RelayOffenders
  /\ pois_db = SubSeq(PoisSeed, 1, 1)
  /\ alerts_db = <<>>
  /\ socket_ok = [s \in 1..RelaySockets |-> TRUE]
  /\ running = NoTask
  /\ registered = [i \in Ids |-> 0]
  /\ ev = NoEv

SpecRelays == InitRelays /\ [][Next]_vars

\* ---------------------------------------------------------- properties
Tasks == {SessionTask(s) : s \in Sockets} \cup {ListenerTask(l) : l \in Listeners}

Frame(t) == IF t[1] = "session" THEN session[t[2]].bc ELSE listener[t[2]].bc

\* the sockets registered now, by the history of connects and disconnects
RegisteredSockets == {registered[c] : c \in {i \in Ids : registered[i] # 0}}

\* the step ends the broadcast of task t
BroadcastEnds(t) == ev'.task = t /\ ev'.op \in {"returned", "raised"}

\* C1: a broadcast during which no connect or disconnect ran returns to its caller
\* without raising, has tried every connection that was registered (none when none
\* was), and has delivered to every one of them whose send did not fail: each socket
\* still sound at the end was delivered to, and each one missed is a dead socket.
C1_BroadcastIndependentDelivery ==
  [][\A t \in Tasks :
       (BroadcastEnds(t) /\ ~Frame(t).dirty) =>
         /\ ev'.op = "returned"
         /\ Frame(t).att = Frame(t).snap
         /\ Frame(t).del \subseteq Frame(t).att
         /\ \A w \in Frame(t).snap : socket_ok[w] => w \in Frame(t).del
         /\ \A w \in Frame(t).att \ Frame(t).del : ~socket_ok[w]]_vars

\* C1 witness: an undisturbed broadcast has tried both registered connections, one
\* send failed and the other was delivered
C1_Witness ==
  \E t \in Tasks :
    /\ Frame(t).st = "sending"
    /\ ~Frame(t).dirty
    /\ Cardinality(Frame(t).snap) >= 2
    /\ Frame(t).att = Frame(t).snap
    /\ Frame(t).del # {}
    /\ Frame(t).att \ Frame(t).del # {}

\* C2 (the claim as stated): a broadcast during which another task connected or
\* disconnected a client still returns without raising, having tried every connection
\* that stayed registered throughout.
C2_BroadcastSurvivesRegistryChange ==
  [][\A t \in Tasks :
       (BroadcastEnds(t) /\ Frame(t).dirty) =>
         /\ ev'.op = "returned"
         /\ (Frame(t).snap \ Frame(t).gone) \subseteq Frame(t).att]_vars

\* C3 (the claim as stated): whenever a relay stream closes, normally or by error,
\* the listener ends and its device, when it has a record, is Offline.
C3_ClosureMarksOffline ==
  \A l \in Listeners :
    (ev.op = "stream_closed" /\ ev.task = ListenerTask(l)) =>
      /\ listener[l].pc = "done"
      /\ listener[l].device_id \in DOMAIN devices_db =>
           devices_db[listener[l].device_id].status = "offline"

\* C4 (the claim as stated): the external-connection map holds no entry for the
\* connection of a listener that has terminated.
C4_TerminatedListenerDeregistered ==
  \A l \in Listeners :
    listener[l].pc = "done" => external_ws_connections[listener[l].device_id] # l

\* C5 (the claim as stated): after a message that is not JSON the receiving loop,
\* of a relay listener or of a dashboard session, is still receiving.
C5_MalformedMessageDropped ==
  ev.op = "malformed" =>
    IF ev.task[1] = "session"
      THEN session[ev.task[2]].pc = "recv"
      ELSE listener[ev.task[2]].pc = "recv"

\* C6 (the claim as stated): once a session has called disconnect, the external relay
\* connection of every device it registered is out of the registry.
C6_DisconnectRemovesOwnedRelays ==
  \A l \in Listeners :
    (listener[l].pc # "none" /\ session[listener[l].owner].pc = "closed") =>
      external_ws_connections[listener[l].device_id] # l

\* C7: the registrations are exactly the ids connected and not disconnected since,
\* each with the socket last connected under it, whatever broadcasts and sends ran
\* and failed meanwhile; a broadcast that no connect or disconnect overlapped began
\* with exactly those sockets as its targets and has tried none other.
C7_OnlyDisconnectRemoves ==
  /\ \A c \in Ids :
       /\ DictHas(active_connections, c) <=> registered[c] # 0
       /\ registered[c] # 0 => DictGet(active_connections, c) = registered[c]
  /\ \A t \in Tasks :
       (Frame(t).st # "idle" /\ ~Frame(t).dirty) =>
         /\ Frame(t).snap = RegisteredSockets
         /\ Frame(t).att \subseteq RegisteredSockets

\* C7 witness: after a disconnect, a broadcast has tried a registered socket whose
\* send failed, and that socket is still registered
C7_Witness ==
  /\ \E s \in Sockets : session[s].pc = "closed"
  /\ \E t \in Tasks :
       /\ Frame(t).st = "sending"
       /\ ~Frame(t).dirty
       /\ \E w \in Frame(t).att \ Frame(t).del : w \in DictValues(active_connections)

\* the alerts the evaluation of a sample must create for an offender: one for each
\* active POI and each exclusion zone of the offender strictly nearer than its radius
ExpectedAlerts(o, loc) ==
  {<<"poi_proximity", p.id>> :
     p \in {q \in DictValues(pois_db) :
              /\ q.is_active
              /\ calculate_distance(loc.lat, loc.lon, q.lat, q.lon) < q.radius}}
  \cup
  {<<"geofence_violation", o.geofence_zones[i].name>> :
     i \in {j \in 1..Len(o.geofence_zones) :
              /\ o.geofence_zones[j].type = "exclusion"
              /\ calculate_distance(loc.lat, loc.lon, o.geofence_zones[j].lat,
                                    o.geofence_zones[j].lon) < o.geofence_zones[j].radius}}

\* the stored alerts of the sample listener l is evaluating, for its current offender
SampleAlerts(l) ==
  {i \in 1..Len(alerts_db) :
     /\ alerts_db[i].sample = <<l, listener[l].n>>
     /\ alerts_db[i].offender_id = listener[l].offender.id}

Evaluating(l) == listener[l].pc \in {"pois", "poi_bc", "zones", "zone_bc"}

EvaluationDone(l) ==
  /\ listener[l].pc = "zones"
  /\ listener[l].zi > Len(listener[l].offender.geofence_zones)

\* C8: while a sample with both coordinates is evaluated for an offender, the alerts
\* stored for it are of high severity, at most one for a POI or zone, and only for
\* active POIs and exclusion zones strictly nearer than their radius (never for an
\* inactive POI, another kind of zone, a distance equal to or over the radius, or
\* radius 0); when both checks have run to their end there is exactly one for each
\* of those.
C8_ExactlyTheAlertsInRange ==
  \A l \in Listeners :
    (Evaluating(l) /\ HasBoth(listener[l].loc)) =>
      LET kinds == {<<alerts_db[i].alert_type, alerts_db[i].message>> : i \in SampleAlerts(l)}
          expected == ExpectedAlerts(listener[l].offender, listener[l].loc) IN
      /\ Cardinality(kinds) = Cardinality(SampleAlerts(l))
      /\ kinds \subseteq expected
      /\ \A i \in SampleAlerts(l) : alerts_db[i].severity = "high"
      /\ \A k \in kinds :
           /\ k[1] = "poi_proximity" =>
                \A p \in DictValues(pois_db) : p.id = k[2] => p.is_active /\ p.radius > 0
           /\ k[1] = "geofence_violation" =>
                \A j \in 1..Len(listener[l].offender.geofence_zones) :
                  listener[l].offender.geofence_zones[j].name = k[2] =>
                    /\ listener[l].offender.geofence_zones[j].type = "exclusion"
                    /\ listener[l].offender.geofence_zones[j].radius > 0
      /\ EvaluationDone(l) => kinds = expected

\* C8 witness: both checks have run to their end on a sample that is inside an active
\* POI and inside an exclusion zone, and an alert of each kind is stored for it
C8_Witness ==
  \E l \in Listeners :
    /\ EvaluationDone(l)
    /\ \E i, j \in SampleAlerts(l) :
         /\ alerts_db[i].alert_type = "poi_proximity"
         /\ alerts_db[j].alert_type = "geofence_violation"

\* the check of listener l that this step runs finds the sample inside its POI or zone
ChecksInside(l) ==
  \/ /\ listener[l].pc = "zones"
     /\ HasBoth(listener[l].loc)
     /\ listener[l].zi <= Len(listener[l].offender.geofence_zones)
     /\ listener'[l].zi = listener[l].zi + 1
     /\ LET z == listener[l].offender.geofence_zones[listener[l].zi] IN
        /\ z.type = "exclusion"
        /\ calculate_distance(listener[l].loc.lat, listener[l].loc.lon, z.lat, z.lon) < z.radius
  \/ /\ listener[l].pc = "pois"
     /\ HasBoth(listener[l].loc)
     /\ listener'[l].pi # listener[l].pi
     /\ LET n == IterNext(pois_db, listener[l].pi) IN
        /\ n.res = "item"
        /\ pois_db[n.i].v.is_active
        /\ calculate_distance(listener[l].loc.lat, listener[l].loc.lon,
                              pois_db[n.i].v.lat, pois_db[n.i].v.lon) < pois_db[n.i].v.radius

\* C9: every check that finds a sample strictly inside an exclusion zone or an active
\* POI radius adds one alert with an id no stored alert has, whatever alerts for the
\* same zone or POI are stored already, and leaves every earlier alert as it was.
C9_NoDeduplication ==
  [][\A l \in Listeners :
       ChecksInside(l) =>
         /\ Len(alerts_db') = Len(alerts_db) + 1
         /\ \A i \in 1..Len(alerts_db) : alerts_db'[i] = alerts_db[i]
         /\ \A i \in 1..Len(alerts_db) : alerts_db[i].id # alerts_db'[Len(alerts_db')].id
         /\ alerts_db'[Len(alerts_db')].offender_id = listener[l].offender.id
         /\ alerts_db'[Len(alerts_db')].sample = <<l, listener[l].n>>]_vars

\* C9 witness: two samples in a row inside the same zone or POI have left two alerts
\* for it, with different ids
C9_Witness ==
  \E i, j \in 1..Len(alerts_db) :
    /\ i < j
    /\ alerts_db[i].offender_id = alerts_db[j].offender_id
    /\ alerts_db[i].alert_type = alerts_db[j].alert_type
    /\ alerts_db[i].message = alerts_db[j].message
    /\ alerts_db[i].sample[1] = alerts_db[j].sample[1]
    /\ alerts_db[j].sample[2] = alerts_db[i].sample[2] + 1
    /\ alerts_db[i].id # alerts_db[j].id

\* C10: when the relay of a register_device request cannot be connected, the session
\* that asked, if its socket is sound, is sent one error message and is receiving
\* again; nobody else is sent anything, no listener is started, no external connection
\* is registered, and the connect is not tried again.
C10_RelayConnectFailure ==
  [][\A s \in Sockets :
       (ev'.op = "connect_failed" /\ ev'.task = SessionTask(s)) =>
         /\ \A l \in Listeners : listener'[l].pc = listener[l].pc
         /\ \A d \in Ids : external_ws_connections'[d] \in {0, external_ws_connections[d]}
         /\ session'[s].pc # "ext_connect"
         /\ \A i \in 1..Len(ev'.out) : ev'.out[i].to = s
         /\ socket_ok[s] =>
              /\ ev'.out = <<Msg(s, "error")>>
              /\ session'[s].pc = "recv"
              /\ \A t \in Sockets \ {s} : session'[t] = session[t]
              /\ UNCHANGED <<active_connections, external_ws_connections, listener,
                             registered, socket_ok, stores>>]_vars

\* C10 witness: a relay connect has just failed, the session that asked has its error
\* message and is receiving
C10_Witness ==
  \E s \in Sockets :
    /\ ev.op = "connect_failed"
    /\ ev.task = SessionTask(s)
    /\ ev.out = <<Msg(s, "error")>>
    /\ session[s].pc = "recv"
    /\ \A d \in Ids : external_ws_connections[d] = 0
    /\ \A l \in Listeners : listener[l].pc = "none"

\* C11 (the claim as stated): a relay location sample that lacks a coordinate is
\* dropped: no device record and no offender ever holds such a location, and the
\* listener that took it is not ended by it.
C11_PartialSampleDropped ==
  /\ \A d \in DOMAIN devices_db : HasBoth(devices_db[d].last_location)
  /\ \A o \in DictValues(offenders_db) : HasBoth(o.current_location)
  /\ ev.op # "key_error"

\* C12: a listener takes its samples one after another: it starts sample k+1 only
\* when it is back at the head of its receive loop with no broadcast of its own open,
\* every alert is stored for the sample its listener is evaluating at that moment, and
\* the device record is written only by a listener that is just taking a sample or
\* handling the abnormal close of its stream.
C12_SamplesInArrivalOrder ==
  [][/\ \A l \in Listeners :
          (listener'[l].n # listener[l].n /\ listener'[l].pc # "done") =>
            /\ listener[l].pc = "recv"
            /\ listener[l].bc = NoFrame
            /\ listener'[l].n = listener[l].n + 1
     /\ Len(alerts_db') # Len(alerts_db) =>
          /\ Len(alerts_db') = Len(alerts_db) + 1
          /\ \E l \in Listeners :
               /\ listener[l].pc \in {"pois", "zones"}
               /\ alerts_db'[Len(alerts_db')].sample = <<l, listener[l].n>>
               /\ \A i \in 1..Len(alerts_db) :
                    alerts_db[i].sample[1] = l => alerts_db[i].sample[2] <= listener[l].n
     /\ devices_db' # devices_db =>
          \E l \in Listeners : listener[l].pc = "recv" /\ listener'[l] # listener[l]]_vars

\* C12 witness: a listener is broadcasting an alert of its second sample, and the
\* alerts of its first sample are stored before it
C12_Witness ==
  \E l \in Listeners :
    /\ listener[l].n = 2
    /\ listener[l].pc = "poi_bc"
    /\ alerts_db[Len(alerts_db)].sample = <<l, 2>>
    /\ \E i \in 1..Len(alerts_db) : alerts_db[i].sample = <<l, 1>>

\* C13 (the claim as stated): a relay listener whose dashboard session has
\* disconnected keeps running: it ends only by what its own stream brings, the close
\* of the stream or a message it cannot handle, never by anything the dashboard
\* side does.
C13_ListenerOutlivesSession ==
  [][\A l \in Listeners :
       (/\ listener[l].pc \notin {"none", "done"}
        /\ session[listener[l].owner].pc = "closed"
        /\ listener'[l].pc = "done") =>
         ev'.op \in {"stream_closed", "malformed", "key_error"}]_vars

\* the step ends the receive loop of session s
Closes(s) == session[s].pc \notin {"idle", "closed"} /\ session'[s].pc = "closed"

\* C14 (the claim as stated): a closed session stays closed and handles nothing more;
\* the step that closes it unregisters its client id and leaves the registrations and
\* the receive loops of the sessions of other client ids as they were; and no session
\* is closed by an error of a broadcast from under which the disconnect of another
\* session took a connection.
C14_SessionLifecycle ==
  [][\A s \in Sockets :
       /\ session[s].pc = "closed" => session'[s] = session[s]
       /\ Closes(s) =>
            /\ ~DictHas(active_connections', session[s].client_id)
            /\ \A t \in Sockets \ {s} :
                 session[t].client_id # session[s].client_id =>
                   /\ session'[t].pc = session[t].pc
                   /\ session[t].pc \notin {"idle", "closed"} =>
                        DictHas(active_connections', session[t].client_id)
                          = DictHas(active_connections, session[t].client_id)
       /\ (Closes(s) /\ ev'.op = "raised") => session[s].bc.gone \subseteq {s}]_vars

\* the listeners that run or ran for device d
ListenersOf(d) == {l \in Listeners : listener[l].pc # "none" /\ listener[l].device_id = d}

\* each device has one relay at most
OneRelayEach == \A d \in Ids : Cardinality(ListenersOf(d)) <= 1

\* the offenders assigned to device d
SubjectsOf(d) == {o \in DictValues(offenders_db) : o.device_id = d}

\* with one relay per device: the record of the device holds the sample its listener
\* is processing, and outside the moment between the two writes of a sample the
\* offender of the device is where the device is
OwnState ==
  OneRelayEach =>
    \A l \in Listeners :
      LET d == listener[l].device_id IN
      /\ listener[l].pc \in {"offenders", "pois", "poi_bc", "zones", "zone_bc", "loc_bc"} =>
           devices_db[d].last_location = listener[l].loc
      /\ listener[l].pc \notin {"none", "offenders"} =>
           \A o \in SubjectsOf(d) : o.current_location = devices_db[d].last_location

\* C15: with a relay listener for each of two devices that are assigned to two
\* offenders, in every interleaving: a device record changes only in a step of the
\* listener of that device, to the sample it takes (or to offline when its stream
\* breaks); an offender's location changes only in a step of the listener of the
\* offender's device, to the sample of that listener; an alert names an offender of
\* the device of the listener that raised it; so each device and offender holds the
\* last sample of its own stream.
C15_RelaysDoNotInterfere ==
  [][/\ OwnState'
     /\ \A d \in DOMAIN devices_db :
          devices_db'[d] # devices_db[d] =>
            \E l \in ListenersOf(d) :
              /\ listener[l].pc = "recv"
              /\ listener'[l] # listener[l]
              /\ \/ devices_db'[d] = [devices_db[d] EXCEPT !.status = "online",
                                          !.last_location = listener'[l].loc]
                 \/ devices_db'[d] = [devices_db[d] EXCEPT !.status = "offline"]
     /\ \A i \in 1..Len(offenders_db) :
          offenders_db'[i] # offenders_db[i] =>
            \E l \in ListenersOf(offenders_db[i].v.device_id) :
              /\ listener[l].pc = "offenders"
              /\ listener'[l] # listener[l]
              /\ offenders_db'[i] =
                   [offenders_db[i] EXCEPT !.v.current_location = listener[l].loc]
     /\ Len(alerts_db') > Len(alerts_db) =>
          LET alert == alerts_db'[Len(alerts_db')] IN
          \E o \in SubjectsOf(listener[alert.sample[1]].device_id) :
            alert.offender_id = o.id]_vars

\* C15 witness: two listeners on two devices have each taken samples; the devices
\* and their offenders are at different places, and both offenders have an alert
C15_Witness ==
  /\ \A l \in Listeners : listener[l].pc \notin {"none", "done"}
  /\ OneRelayEach
  /\ devices_db["a"].last_location = [lat |-> 0, lon |-> 0]
  /\ devices_db["b"].last_location = [lat |-> 0, lon |-> 60]
  /\ \A d \in Ids : \A o \in SubjectsOf(d) : o.current_location = devices_db[d].last_location
  /\ \E i, j \in 1..Len(alerts_db) : alerts_db[i].offender_id # alerts_db[j].offender_id

\* the relay listeners that are running
ActiveListeners == {l \in Listeners : listener[l].pc \notin {"none", "done"}}

\* C20 (the claim as stated): no two running relay listeners are for the same device
\* id, and each running listener reads the external connection that the registry
\* holds under its device id.
C20_OneListenerPerDevice ==
  /\ \A l1, l2 \in ActiveListeners :
       listener[l1].device_id = listener[l2].device_id => l1 = l2
  /\ \A l \in ActiveListeners : external_ws_connections[listener[l].device_id] = l

\* the alerts stored for the sample listener l is processing
AlertsOfSample(l) == {i \in 1..Len(alerts_db) : alerts_db[i].sample = <<l, listener[l].n>>}

HalfTurnMeters == ArcMeters(16)

\* C18: calculate_distance gives the same result with its two points exchanged,
\* 0 for a point and itself, and never a negative result nor one over half the
\* circumference of the sphere of radius 6,371,000 m.
C18_DistanceSymmetric ==
  ev.op = "distance" =>
    LET p == ev.out[1]
        q == ev.out[2]
        d == ev.out[3] IN
    /\ d = calculate_distance(q.lat, q.lon, p.lat, p.lon)
    /\ p = q => d = 0
    /\ d >= 0
    /\ d <= HalfTurnMeters

\* C18 witness: the distance of two points that differ in latitude and longitude
C18_Witness ==
  /\ ev.op = "distance"
  /\ ev.out[1].lat # ev.out[2].lat
  /\ ev.out[1].lon # ev.out[2].lon
  /\ ev.out[3] > 0
  /\ ev.out[3] < HalfTurnMeters

\* an alert but for its acknowledged flag
Unflagged(alert) == [alert EXCEPT !.acknowledged = FALSE]

\* C16: every stored alert stays in the store with all its fields but the flag as
\* they were; a new alert comes with acknowledged false; the flag of an alert changes
\* only from false to true and only by an acknowledge request for it, which leaves it
\* true when it is true and touches no other alert; an acknowledge request for an id
\* no alert has is answered 404 and changes nothing.
C16_AlertsOnlyAcknowledged ==
  [][/\ Len(alerts_db') >= Len(alerts_db)
     /\ \A i \in 1..Len(alerts_db) :
          /\ Unflagged(alerts_db'[i]) = Unflagged(alerts_db[i])
          /\ alerts_db[i].acknowledged => alerts_db'[i].acknowledged
          /\ alerts_db'[i].acknowledged # alerts_db[i].acknowledged =>
               ev' = Response("acknowledge_alert", <<i>>, 200)
     /\ \A i \in (Len(alerts_db) + 1)..Len(alerts_db') : ~alerts_db'[i].acknowledged
     /\ ev'.op = "acknowledge_alert" =>
          IF ev'.out[1] \in 1..Len(alerts_db)
            THEN /\ ev'.out[2] = 200
                 /\ alerts_db' = [alerts_db EXCEPT ![ev'.out[1]].acknowledged = TRUE]
            ELSE /\ ev'.out[2] = 404
                 /\ alerts_db' = alerts_db]_vars

\* C16 witness: the first of two stored alerts has just been acknowledged, the other
\* one is not
C16_Witness ==
  /\ ev = Response("acknowledge_alert", <<1>>, 200)
  /\ Len(alerts_db) >= 2
  /\ alerts_db[1].acknowledged
  /\ ~alerts_db[2].acknowledged

\* no two devices on record are assigned the same offender
UniqueAssignment ==
  \A d1, d2 \in DOMAIN devices_db :
    (d1 # d2 /\ devices_db[d1].offender_id # NoKey) =>
      devices_db[d1].offender_id # devices_db[d2].offender_id

\* C17: after every step no two devices on record are assigned the same offender; a
\* register or update request that names an offender another device is assigned to
\* is answered with an error (400, or 404 for an update of a device not on record)
\* and changes neither the device store nor the offender store; and a step that is not a device request, a step of a relay listener in
\* particular, changes no assignment.
C17_UniqueAssignment ==
  [][/\ UniqueAssignment'
     /\ (/\ ev'.op \in {"register_device", "update_device"}
         /\ ev'.out[2] # NoKey
         /\ AssignedElsewhere(ev'.out[2], {ev'.out[1]})) =>
          /\ ev'.out[3] \in {400, 404}
          /\ UNCHANGED <<devices_db, offenders_db>>
     /\ ev'.op \notin {"register_device", "update_device", "delete_device"} =>
          /\ DOMAIN devices_db' = DOMAIN devices_db
          /\ \A d \in DOMAIN devices_db :
               devices_db'[d].offender_id = devices_db[d].offender_id
          /\ \A i \in 1..Len(offenders_db) :
               offenders_db'[i].v.device_id = offenders_db[i].v.device_id]_vars

\* C17 witness: two devices are on record with two offenders, and the request to put
\* one of them on the offender of the other has just been refused
C17_Witness ==
  /\ ev.op = "update_device"
  /\ ev.out[3] = 400
  /\ DOMAIN devices_db = Ids
  /\ \A d \in Ids : devices_db[d].offender_id # NoKey
  /\ \E e \in Ids \ {ev.out[1]} : devices_db[e].offender_id = ev.out[2]

\* C21 (the claim as stated): when several offenders reference one device, a sample
\* of the device moves only the first of them in store order and raises alerts for
\* that one only: an offender whose location a step changes, or for whom a step
\* stores an alert, has no offender of the same device before it in the store.
C21_FirstMatchWins ==
  [][/\ \A i \in 1..Len(offenders_db) :
          (/\ i <= Len(offenders_db')
           /\ offenders_db[i].k # NoKey
           /\ offenders_db'[i].k = offenders_db[i].k
           /\ offenders_db'[i].v.current_location # offenders_db[i].v.current_location) =>
            \A j \in 1..(i - 1) :
              offenders_db[j].k # NoKey =>
                offenders_db[j].v.device_id # offenders_db[i].v.device_id
     /\ Len(alerts_db') > Len(alerts_db) =>
          \A i \in 1..Len(offenders_db) :
            (/\ offenders_db[i].k = alerts_db'[Len(alerts_db')].offender_id
             /\ offenders_db[i].k # NoKey) =>
              \A j \in 1..(i - 1) :
                offenders_db[j].k # NoKey =>
                  offenders_db[j].v.device_id # offenders_db[i].v.device_id]_vars

\* the socket registered under client id c in registry ac, 0 when there is none
RegisteredSocket(ac, c) == IF DictHas(ac, c) THEN DictGet(ac, c) ELSE 0

\* C22 (the claim as stated): the close of a session never takes away the
\* registration of another open session: a session whose socket the registry holds
\* under its client id is still registered so after any other session has closed.
C22_CloseKeepsNewerRegistration ==
  [][\A s \in Sockets :
       Closes(s) =>
         \A t \in Sockets \ {s} :
           (/\ session[t].pc \notin {"idle", "closed"}
            /\ RegisteredSocket(active_connections, session[t].client_id) = t) =>
             RegisteredSocket(active_connections', session[t].client_id) = t]_vars

\* C23 (the claim as stated): a listener in the middle of a sample whose location is
\* complete is not terminated at a step of its loops over the offender store and the
\* POI store, whatever the REST handlers have created or deleted in these stores
\* since the loop began: the step takes it on within the sample.
C23_StoreChangeKeepsListener ==
  [][\A l \in Listeners :
       (/\ listener[l].pc \in {"offenders", "pois"}
        /\ HasBoth(listener[l].loc)) =>
         listener'[l].pc # "done"]_vars

====
